---- MODULE Spec2Model ----
(***************************************************************************)
(* Canonical entity resolver of the order-ingestion pipeline               *)
(* (src/lib/itemNormalizer.js) over the store declared in                  *)
(* src/ray-analytics-dashboard/src/db/schema.ts.                           *)
(*                                                                         *)
(* A string is a sequence of one-character strings.  Characters outside    *)
(* ASCII are written as atoms: "E_ACUTE" (U+00E9), "E_ACUTE_UPPER"         *)
(* (U+00C9), "COMBINING_ACUTE" (U+0301) and "EMOJI_TACO" (U+1F32E).        *)
(***************************************************************************)
EXTENDS Integers, Sequences, FiniteSets, TLC

\* null (and undefined) where a string is expected: no string holds this atom
Null == <<"null">>

\* null where an id is expected: no row has this id
NullId == 0

\* ------------------------------------------------------------------ text

UpperChars ==
    <<"A","B","C","D","E","F","G","H","I","J","K","L","M",
      "N","O","P","Q","R","S","T","U","V","W","X","Y","Z">>

LowerChars ==
    <<"a","b","c","d","e","f","g","h","i","j","k","l","m",
      "n","o","p","q","r","s","t","u","v","w","x","y","z">>

DigitChars == {"0","1","2","3","4","5","6","7","8","9"}

\* \s of a JavaScript regular expression, as far as the inputs go
SpaceChars == {" ", "\t"}

Range(s) == {s[i] : i \in 1..Len(s)}

\* [a-z0-9\s], the characters normalizeText keeps
KeptChars == Range(LowerChars) \cup DigitChars \cup SpaceChars

\* \w of a JavaScript regular expression without the u flag
WordChars == Range(LowerChars) \cup Range(UpperChars) \cup DigitChars \cup {"_"}

\* [\u{1F300}-\u{1FAFF}]
EmojiChars == {"EMOJI_TACO"}

\* String.prototype.toLowerCase on one character
LowerOf(c) ==
    IF c = "E_ACUTE_UPPER" THEN "E_ACUTE"
    ELSE IF \E i \in 1..Len(UpperChars) : UpperChars[i] = c
         THEN LowerChars[CHOOSE i \in 1..Len(UpperChars) : UpperChars[i] = c]
         ELSE c

\* String.prototype.toUpperCase on one character
UpperOf(c) ==
    IF c = "E_ACUTE" THEN "E_ACUTE_UPPER"
    ELSE IF \E i \in 1..Len(LowerChars) : LowerChars[i] = c
         THEN UpperChars[CHOOSE i \in 1..Len(LowerChars) : LowerChars[i] = c]
         ELSE c

\* the NFKD decomposition of one character
Decompose(c) ==
    IF c = "E_ACUTE" THEN <<"e", "COMBINING_ACUTE">>
    ELSE IF c = "E_ACUTE_UPPER" THEN <<"E", "COMBINING_ACUTE">>
    ELSE <<c>>

ToLowerCase(s) == [i \in 1..Len(s) |-> LowerOf(s[i])]

RECURSIVE NFKD(_)
\* String.prototype.normalize("NFKD")
NFKD(s) ==
    IF s = <<>> THEN <<>> ELSE Decompose(Head(s)) \o NFKD(Tail(s))

RECURSIVE Only(_, _)
\* s without the characters outside keep
Only(s, keep) ==
    IF s = <<>> THEN <<>>
    ELSE IF Head(s) \in keep THEN <<Head(s)>> \o Only(Tail(s), keep)
    ELSE Only(Tail(s), keep)

\* s without the characters of drop
Without(s, drop) == Only(s, Range(s) \ drop)

IsWordAt(s, i, word) == i \in 1..Len(s) /\ s[i] \in word

\* \b between positions i-1 and i of s
Boundary(s, i, word) == IsWordAt(s, i - 1, word) # IsWordAt(s, i, word)

RECURSIVE RunEnd(_, _, _)
\* the first position at or after i whose character is not in class
RunEnd(s, i, class) ==
    IF i <= Len(s) /\ s[i] \in class THEN RunEnd(s, i + 1, class) ELSE i

\* the character a pattern compares: with the i flag, case is ignored
Folded(c, ignoreCase) == IF ignoreCase THEN LowerOf(c) ELSE c

\* the length of the match of \s*pcs?\b at position i of s, 0 for no match
PcsMatchLen(s, i, word, ignoreCase) ==
    LET q == RunEnd(s, i, SpaceChars)
    IN  IF q + 1 <= Len(s) /\ Folded(s[q], ignoreCase) = "p"
                           /\ Folded(s[q + 1], ignoreCase) = "c"
        THEN IF q + 2 <= Len(s) /\ Folded(s[q + 2], ignoreCase) = "s"
                                /\ Boundary(s, q + 3, word)
             THEN q + 3 - i
             ELSE IF Boundary(s, q + 2, word) THEN q + 2 - i ELSE 0
        ELSE 0

RECURSIVE StripPcsFrom(_, _)
\* .replace(/\s*pcs?\b/g, '') from position i on
StripPcsFrom(s, i) ==
    IF i > Len(s) THEN <<>>
    ELSE LET n == PcsMatchLen(s, i, WordChars, FALSE)
         IN  IF n > 0 THEN StripPcsFrom(s, i + n)
             ELSE <<s[i]>> \o StripPcsFrom(s, i + 1)

\* the length of the match of \b\d+\b at position i of s, 0 for no match
NumberMatchLen(s, i) ==
    LET j == RunEnd(s, i, DigitChars)
    IN  IF j > i /\ Boundary(s, i, WordChars) /\ Boundary(s, j, WordChars)
        THEN j - i ELSE 0

RECURSIVE StripNumbersFrom(_, _)
\* .replace(/\b\d+\b/g, '') from position i on
StripNumbersFrom(s, i) ==
    IF i > Len(s) THEN <<>>
    ELSE LET n == NumberMatchLen(s, i)
         IN  IF n > 0 THEN StripNumbersFrom(s, i + n)
             ELSE <<s[i]>> \o StripNumbersFrom(s, i + 1)

RECURSIVE CollapseFrom(_, _)
\* .replace(/\s+/g, ' ') from position i on
CollapseFrom(s, i) ==
    IF i > Len(s) THEN <<>>
    ELSE IF s[i] \in SpaceChars
         THEN <<" ">> \o CollapseFrom(s, RunEnd(s, i, SpaceChars))
         ELSE <<s[i]>> \o CollapseFrom(s, i + 1)

RECURSIVE TrimEnd(_)
TrimEnd(s) ==
    IF s # <<>> /\ s[Len(s)] \in SpaceChars THEN TrimEnd(SubSeq(s, 1, Len(s) - 1)) ELSE s

\* String.prototype.trim
Trim(s) ==
    LET t == TrimEnd(s) IN SubSeq(t, RunEnd(t, 1, SpaceChars), Len(t))

\* normalizeText: null for an empty or absent string, otherwise the key
normalizeText(str) ==
    IF str = Null \/ str = <<>> THEN Null
    ELSE Trim(CollapseFrom(StripNumbersFrom(StripPcsFrom(
             Only(Without(NFKD(ToLowerCase(str)), EmojiChars), KeptChars), 1), 1), 1))

\* ------------------------------------------------------------ similarity

Min2(a, b) == IF a <= b THEN a ELSE b

\* The edit distance is computed row by row.  Row i of the table holds, at
\* index j + 1, the distance between the first i characters of a and the
\* first j characters of b.  A row and each cell is bound to its value by
\* ranging over a singleton set: an operator argument would be evaluated anew
\* at every use.
RECURSIVE LevRow(_, _, _, _, _)
\* row i from the row before it; acc holds the cells computed so far
LevRow(prev, ch, b, j, acc) ==
    IF j > Len(b) THEN acc
    ELSE CHOOSE row \in
             { LevRow(prev, ch, b, j + 1, Append(acc, cell)) :
                 cell \in { Min2(Min2(prev[j + 1] + 1, acc[j] + 1),
                                 prev[j] + (IF ch = b[j] THEN 0 ELSE 1)) } } : TRUE

RECURSIVE LevFrom(_, _, _, _)
LevFrom(a, b, i, prev) ==
    IF i > Len(a) THEN prev[Len(b) + 1]
    ELSE CHOOSE dist \in
             { LevFrom(a, b, i + 1, row) : row \in {LevRow(prev, a[i], b, 1, <<i>>)} } : TRUE

\* levenshtein.get(a, b): the edit distance of a and b
Levenshtein(a, b) == LevFrom(a, b, 1, [j \in 1..(Len(b) + 1) |-> j - 1])

Max2(a, b) == IF a >= b THEN a ELSE b

\* A score is the fraction <<numerator, denominator>>; NaN is 0 / 0.
NaN == <<0, 0>>

\* similarity(a, b) = 1 - dist / Math.max(a.length, b.length)
similarity(a, b) ==
    LET m == Max2(Len(a), Len(b))
    IN  IF m = 0 THEN NaN ELSE <<m - Levenshtein(a, b), m>>

\* x > y on scores; false when either is NaN
ScoreGt(x, y) == x # NaN /\ y # NaN /\ x[1] * y[2] > y[1] * x[2]

\* x >= y on scores; false when either is NaN
ScoreGe(x, y) == x # NaN /\ y # NaN /\ x[1] * y[2] >= y[1] * x[2]

ZeroScore == <<0, 1>>

\* -------------------------------------------------------- canonical name

RECURSIVE Split(_, _)
\* String.prototype.split(sep) for a one-character separator
Split(s, sep) ==
    IF \E i \in 1..Len(s) : s[i] = sep
    THEN LET i == CHOOSE k \in 1..Len(s) : s[k] = sep /\ \A l \in 1..(k - 1) : s[l] # sep
         IN  <<SubSeq(s, 1, i - 1)>> \o Split(SubSeq(s, i + 1, Len(s)), sep)
    ELSE <<s>>

RECURSIVE Join(_, _)
\* Array.prototype.join(sep)
Join(parts, sep) ==
    IF parts = <<>> THEN <<>>
    ELSE IF Len(parts) = 1 THEN parts[1]
    ELSE parts[1] \o <<sep>> \o Join(Tail(parts), sep)

\* w.charAt(0).toUpperCase() + w.slice(1)
Capitalize(w) == IF w = <<>> THEN <<>> ELSE <<UpperOf(w[1])>> \o Tail(w)

\* the display name of a new category: each token of the key capitalized
TitleCase(normalized) ==
    LET parts == Split(normalized, " ")
    IN  Join([i \in 1..Len(parts) |-> Capitalize(parts[i])], " ")

\* the length of the match of \b\d+\s*pcs?\b (i flag) at position i, 0 for none
QuantityMatchLen(s, i) ==
    LET j == RunEnd(s, i, DigitChars)
    IN  IF j > i /\ Boundary(s, i, WordChars)
        THEN LET n == PcsMatchLen(s, j, WordChars, TRUE)
             IN  IF n > 0 THEN (j - i) + n ELSE 0
        ELSE 0

\* rawName.replace(/\b\d+\s*pcs?\b/i, ''): the first match only
StripQuantity(s) ==
    IF \E i \in 1..Len(s) : QuantityMatchLen(s, i) > 0
    THEN LET i == CHOOSE k \in 1..Len(s) :
                     /\ QuantityMatchLen(s, k) > 0
                     /\ \A l \in 1..(k - 1) : QuantityMatchLen(s, l) = 0
         IN  SubSeq(s, 1, i - 1) \o SubSeq(s, i + QuantityMatchLen(s, i), Len(s))
    ELSE s

\* the canonical_name resolveCanonical gives a new entry
CanonicalNameOf(rawName, entityType) ==
    IF entityType = "category"
    THEN TitleCase(normalizeText(rawName))
    ELSE Trim(StripQuantity(rawName))

\* ------------------------------------------------------------------ store

EntityTypes == {"item", "category"}

\* mappingTable and canonicalTable of resolveCanonical
MappingTable(entityType) ==
    IF entityType = "item" THEN "item_mappings" ELSE "category_mappings"

CanonicalTable(entityType) ==
    IF entityType = "item" THEN "canonical_items" ELSE "canonical_categories"

CanonicalTables == {"canonical_items", "canonical_categories"}

MappingTables == {"item_mappings", "category_mappings"}

\* fuzzyThreshold when the caller gives none: 0.8 for items, 0.75 otherwise
\* fuzzyThreshold = null
NoThreshold == <<>>

DefaultThreshold(entityType) ==
    IF entityType = "item" THEN <<4, 5>> ELSE <<3, 4>>

NoError == "none"

\* the errors an insert can report
StoreFailure == "store_failure"
NotNullViolation == "not_null_violation"
UniqueViolation == "unique_violation"
ForeignKeyViolation == "foreign_key_violation"

\* Raw names, and the calls of resolveCanonical the model makes.
RawTaco == <<"T","a","c","o">>
RawTacos == <<"T","a","c","o","s">>
RawTacoz == <<"T","a","c","o","z">>
RawTacoPcs == <<"T","a","c","o"," ","1","2"," ","p","c","s">>
RawPcsOnly == <<"1","2"," ","p","c","s">>
RawFry == <<"F","r","y">>
RawTea == <<"T","e","a">>
RawTeas == <<"T","e","a","s">>
RawHotDrinks == <<"h","o","t"," ","d","r","i","n","k","s">>
RawEmpty == <<>>

Request(rawName, entityType, fuzzyThreshold) ==
    [rawName |-> rawName, entityType |-> entityType, fuzzyThreshold |-> fuzzyThreshold]

Requests ==
    { Request(RawTaco, "item", NoThreshold),
      Request(RawTacos, "item", NoThreshold),
      Request(RawTacoz, "item", NoThreshold),
      Request(RawTacoPcs, "item", NoThreshold),
      Request(RawPcsOnly, "item", NoThreshold),
      Request(RawTacos, "item", <<1, 1>>),
      Request(RawFry, "item", <<0, 1>>),
      Request(RawTea, "category", NoThreshold),
      Request(RawTeas, "category", NoThreshold),
      Request(RawHotDrinks, "category", NoThreshold),
      Request(Null, "category", NoThreshold),
      Request(RawEmpty, "item", NoThreshold) }

\* The keys and the rows of the calls above, computed once.
RawNames == {r.rawName : r \in Requests} \ {Null, RawEmpty}

KeyOf == [rawName \in RawNames |-> normalizeText(rawName)]

NameOf ==
    [rawName \in RawNames, entityType \in EntityTypes |->
        LET canonicalName == CanonicalNameOf(rawName, entityType)
        IN  <<canonicalName, normalizeText(canonicalName)>>]

Procs == {"p1", "p2"}

\* the number of resolveCanonical calls of a run
MaxCalls == 2

VARIABLES
    tables,      \* table name -> the set of its rows
    pc,          \* where each call of resolveCanonical stands
    req,         \* the arguments of each call
    entries,     \* canonicalEntries: the rows step 2 fetched, in the order given
    bestMatch,   \* the local bestMatch
    bestScore,   \* the local bestScore
    newEntry,    \* the row the insert of step 4 returned
    result,      \* the value a call returned
    error,       \* the error a call threw
    calls,       \* the store calls of the current call of resolveCanonical
    returned,    \* every <<entityType, key, id>> a call has returned so far
    ncalls,      \* the calls made so far
    text,        \* a string given to normalizeText
    keys,        \* what normalizeText returned for it, and for what it returned
    stage,       \* where the POST handler stands
    parsedIntent, \* parsedJson.intent: the intent the interpreter answered with
    query,       \* the query buildQueryPlan returned
    queryRows,   \* rows: the rows the query gave
    chartData,   \* what transformQueryResult made of them
    database,    \* the orders, line items and canonical names the query runs on
    step,        \* where an ingestion run stands
    dataOrders,  \* data.orders: the orders of the file the run reads
    orderIndex,  \* the order main is at
    itemIndex,   \* the line item formatOrderItems or insertOrder is at
    canonicalItemId, \* the local canonicalItemId of formatOrderItems
    formattedItems,  \* results, then formattedItems: the rows made for the line items
    log          \* the inserts the run has attempted and the errors it has caught

normalizerVars == <<text, keys>>

queryVars == <<stage, parsedIntent, query, queryRows, chartData, database>>

ingestVars ==
    <<step, dataOrders, orderIndex, itemIndex, canonicalItemId, formattedItems, log>>

\* the state outside resolveCanonical
outside == <<normalizerVars, queryVars, ingestVars>>

resolverVars == <<tables, pc, req, entries, bestMatch, bestScore, newEntry, result, error,
                  calls, returned, ncalls>>

vars == <<resolverVars, outside>>

\* id: uuid defaultRandom(): an id no row of the table has
FreshId(table) == Cardinality(tables[table]) + 1

\* canonical_name and normalized_name are notNull (schema.ts 28-29, 60-61)
CanonicalNotNull(row) == row.canonical_name # Null /\ row.normalized_name # Null

\* the canonical tables without their unique index
CanonicalIndexDropped(table, row) == TRUE

\* uniqueIndex on normalized_name (schema.ts 32-34, 64-66)
CanonicalUnique(table, row) ==
    \A r \in tables[table] : r.normalized_name # row.normalized_name

\* raw_name and normalized_raw_name are notNull (schema.ts 41-42, 73-74)
MappingNotNull(row) == row.raw_name # Null /\ row.normalized_raw_name # Null

\* the mapping tables without their unique index
MappingIndexDropped(table, row) == TRUE

\* uniqueIndex on normalized_raw_name (schema.ts 50-52, 82-84)
MappingUnique(table, row) ==
    \A r \in tables[table] : r.normalized_raw_name # row.normalized_raw_name

\* canonical_item_id references canonical_items.id (schema.ts 43-45, 75-77)
MappingReference(entityType, row) ==
    row.canonical_id = NullId
        \/ \E r \in tables[CanonicalTable(entityType)] : r.id = row.canonical_id

\* the error the store reports for an insert into a canonical table
CanonicalInsertError(table, row, fault) ==
    IF fault THEN StoreFailure
    ELSE IF ~CanonicalNotNull(row) THEN NotNullViolation
    ELSE IF ~CanonicalUnique(table, row) THEN UniqueViolation
    ELSE NoError

\* the error the store reports for an insert into a mapping table
MappingInsertError(entityType, row, fault) ==
    IF fault THEN StoreFailure
    ELSE IF ~MappingNotNull(row) THEN NotNullViolation
    ELSE IF ~MappingUnique(MappingTable(entityType), row) THEN UniqueViolation
    ELSE IF ~MappingReference(entityType, row) THEN ForeignKeyViolation
    ELSE NoError

\* the sequences that hold every element of S once: the orders a select
\* without ORDER BY can give
Orders(S) ==
    {s \in [1..Cardinality(S) -> S] : \A i, j \in 1..Cardinality(S) : s[i] = s[j] => i = j}

\* null where a row is expected
NullRow == [id |-> NullId, canonical_name |-> Null, normalized_name |-> Null]

\* .single(): the row when the query gives exactly one, otherwise no data
Single(rows) == IF Cardinality(rows) = 1 THEN CHOOSE r \in rows : TRUE ELSE NullRow

StoreCall(op, table, row, err) == [op |-> op, table |-> table, row |-> row, error |-> err]

\* --------------------------------------------------------------- resolver

\* rawName === null: the empty name taken for a name
FalsyNullOnly(str) == str = Null

\* !rawName
Falsy(str) == str = Null \/ str = <<>>

\* the threshold a call works with (lines 74-76)
Threshold(r) ==
    IF r.fuzzyThreshold = NoThreshold THEN DefaultThreshold(r.entityType)
    ELSE r.fuzzyThreshold

\* const normalized = normalizeText(rawName)
Normalized(r) == KeyOf[r.rawName]

\* score >= bestScore: the last of equal candidates would win
TakesLeadOnTie(score, best) == ScoreGe(score, best)

\* score > bestScore: whether a candidate takes the lead
TakesLead(score, best) == ScoreGt(score, best)

RECURSIVE ScanFrom(_, _, _, _)
\* the loop over canonicalEntries from candidate i on; best = <<bestMatch, bestScore>>
ScanFrom(rows, normalized, i, best) ==
    IF i > Len(rows) THEN best
    ELSE LET score == similarity(normalized, rows[i].normalized_name)
         IN  ScanFrom(rows, normalized, i + 1,
                      IF TakesLead(score, best[2]) THEN <<rows[i], score>> ELSE best)

\* bestMatch && bestScore > fuzzyThreshold: a score at the threshold rejected
AcceptsAboveOnly(match, score, threshold) == match # NullRow /\ ScoreGt(score, threshold)

\* bestMatch && bestScore >= fuzzyThreshold
AcceptsFuzzy(match, score, threshold) == match # NullRow /\ ScoreGe(score, threshold)

NoCall == Request(Null, "item", NoThreshold)

EmptyStore == [t \in CanonicalTables \cup MappingTables |-> {}]

\* The store as an earlier run can leave it: two items one edit apart, each
\* created by a call that scanned before the other's insert.
EarlierStore ==
    [EmptyStore EXCEPT
        !["canonical_items"] =
            { [id |-> 1, canonical_name |-> RawTaco, normalized_name |-> KeyOf[RawTaco]],
              [id |-> 2, canonical_name |-> RawTacos, normalized_name |-> KeyOf[RawTacos]] },
        !["item_mappings"] =
            { [raw_name |-> RawTaco, normalized_raw_name |-> KeyOf[RawTaco],
               canonical_id |-> 1, mapping_method |-> "created", confidence |-> <<1, 1>>],
              [raw_name |-> RawTacos, normalized_raw_name |-> KeyOf[RawTacos],
               canonical_id |-> 2, mapping_method |-> "created", confidence |-> <<1, 1>>] }]

\* no call of resolveCanonical made yet
Idle ==
    /\ pc = [p \in Procs |-> "idle"]
    /\ req = [p \in Procs |-> NoCall]
    /\ entries = [p \in Procs |-> <<>>]
    /\ bestMatch = [p \in Procs |-> NullRow]
    /\ bestScore = [p \in Procs |-> ZeroScore]
    /\ newEntry = [p \in Procs |-> NullRow]
    /\ result = [p \in Procs |-> NullId]
    /\ error = [p \in Procs |-> NoError]
    /\ calls = [p \in Procs |-> <<>>]
    /\ returned = {}
    /\ ncalls = 0

\* normalizeText not called by itself
NoText == text = Null /\ keys = <<>>

\* no request posted
NoQuery ==
    /\ stage = "none"
    /\ parsedIntent = <<>>
    /\ query = <<>>
    /\ queryRows = <<>>
    /\ chartData = <<>>
    /\ database = <<>>

\* no ingestion run
NoIngestion ==
    /\ step = "none"
    /\ dataOrders = <<>>
    /\ orderIndex = 0
    /\ itemIndex = 0
    /\ canonicalItemId = NullId
    /\ formattedItems = <<>>
    /\ log = <<>>

Init ==
    /\ tables \in {EmptyStore, EarlierStore}
    /\ Idle
    /\ NoText
    /\ NoQuery
    /\ NoIngestion

Running(p) == pc[p] \notin {"idle", "done", "failed"}

\* return id
Return(p, id) ==
    /\ pc' = [pc EXCEPT ![p] = "done"]
    /\ result' = [result EXCEPT ![p] = id]
    /\ returned' = returned \cup {<<req[p].entityType, Normalized(req[p]), id>>}

\* resolveCanonical(supabase, r.rawName, r.entityType, r.fuzzyThreshold) is
\* called by p, which has no call running (lines 70-84)
Call(p, r) ==
    /\ ~Running(p)
    /\ req' = [req EXCEPT ![p] = r]
    /\ pc' = [pc EXCEPT ![p] = IF Falsy(r.rawName) THEN "done" ELSE "lookup"]
    /\ entries' = [entries EXCEPT ![p] = <<>>]
    /\ bestMatch' = [bestMatch EXCEPT ![p] = NullRow]
    /\ bestScore' = [bestScore EXCEPT ![p] = ZeroScore]
    /\ newEntry' = [newEntry EXCEPT ![p] = NullRow]
    /\ result' = [result EXCEPT ![p] = NullId]
    /\ error' = [error EXCEPT ![p] = NoError]
    /\ calls' = [calls EXCEPT ![p] = <<>>]
    /\ UNCHANGED <<tables, returned>>

\* A caller calls resolveCanonical (lines 70-84); the call returns null at
\* once for an empty or absent rawName.
Start(p) ==
    /\ ncalls < MaxCalls
    /\ ncalls' = ncalls + 1
    /\ \E r \in Requests : Call(p, r)
    /\ UNCHANGED outside

\* a lookup that never finds the mapping
MappingNeverFound(table, normalized) == NullRow

\* the select of step 1: .eq(mappingField, normalized).single()
ExistingMapping(table, normalized) ==
    Single({m \in tables[table] : m.normalized_raw_name = normalized})

\* Step 1 (lines 85-94): the select on the mapping table, and the return of
\* the mapping's canonical id when there is one.
Lookup(p) ==
    /\ pc[p] = "lookup"
    /\ LET table == MappingTable(req[p].entityType)
           existingMapping == ExistingMapping(table, Normalized(req[p]))
       IN  /\ calls' = [calls EXCEPT ![p] = Append(@, StoreCall("select", table, <<>>, NoError))]
           /\ IF existingMapping # NullRow
              THEN Return(p, existingMapping.canonical_id)
              ELSE /\ pc' = [pc EXCEPT ![p] = "scan"]
                   /\ UNCHANGED <<result, returned>>
    /\ UNCHANGED <<tables, req, entries, bestMatch, bestScore, newEntry, error, ncalls>>
    /\ UNCHANGED outside

\* Step 2 (lines 96-113): the select of every canonical entry, in whatever
\* order the store gives them, the scan for the best match and the choice
\* between the fuzzy match and a new entry.
Scan(p) ==
    /\ pc[p] = "scan"
    /\ LET table == CanonicalTable(req[p].entityType)
       IN  \E canonicalEntries \in Orders(tables[table]) :
             LET best == ScanFrom(canonicalEntries, Normalized(req[p]), 1,
                                  <<NullRow, ZeroScore>>)
             IN  /\ entries' = [entries EXCEPT ![p] = canonicalEntries]
                 /\ bestMatch' = [bestMatch EXCEPT ![p] = best[1]]
                 /\ bestScore' = [bestScore EXCEPT ![p] = best[2]]
                 /\ calls' = [calls EXCEPT ![p] =
                                 Append(@, StoreCall("select", table, <<>>, NoError))]
                 /\ pc' = [pc EXCEPT ![p] =
                              IF AcceptsFuzzy(best[1], best[2], Threshold(req[p]))
                              THEN "accept" ELSE "create"]
    /\ UNCHANGED <<tables, req, newEntry, result, error, returned, ncalls>>
    /\ UNCHANGED outside

\* a mapping keyed by the raw name instead of the normalized one
MappingRowKeyedRaw(r, id, method, confidence) ==
    [raw_name |-> r.rawName, normalized_raw_name |-> r.rawName, canonical_id |-> id,
     mapping_method |-> method, confidence |-> confidence]

\* the row of the mapping table a call writes (lines 114-120, 153-159)
MappingRow(r, id, method, confidence) ==
    [raw_name |-> r.rawName, normalized_raw_name |-> Normalized(r), canonical_id |-> id,
     mapping_method |-> method, confidence |-> confidence]

\* a mapping insert whose error is thrown
MappingErrorThrown(p, id, err) ==
    IF err # NoError
    THEN /\ pc' = [pc EXCEPT ![p] = "failed"]
         /\ error' = [error EXCEPT ![p] = err]
         /\ UNCHANGED <<result, returned>>
    ELSE /\ Return(p, id)
         /\ UNCHANGED error

\* what follows the insert of a mapping: its outcome is not looked at, and
\* the call returns id whatever the store answered
AfterMapping(p, id, err) ==
    /\ Return(p, id)
    /\ UNCHANGED error

\* the insert into the mapping table and the return that follows it
InsertMapping(p, row, fault) ==
    LET table == MappingTable(req[p].entityType)
        err == MappingInsertError(req[p].entityType, row, fault)
    IN  /\ tables' = IF err = NoError
                     THEN [tables EXCEPT ![table] = @ \cup {row}] ELSE tables
        /\ calls' = [calls EXCEPT ![p] = Append(@, StoreCall("insert", table, row, err))]
        /\ AfterMapping(p, row.canonical_id, err)

\* Step 3 (lines 113-123): the mapping of the fuzzy match is written and the
\* match's id returned.
Accept(p, faults) ==
    /\ pc[p] = "accept"
    /\ \E fault \in faults :
         InsertMapping(p, MappingRow(req[p], bestMatch[p].id, "fuzzy", bestScore[p]), fault)
    /\ UNCHANGED <<req, entries, bestMatch, bestScore, newEntry, ncalls>>
    /\ UNCHANGED outside

\* the row of the canonical table a call writes (lines 126-144)
CanonicalRow(r, id) ==
    LET name == NameOf[r.rawName, r.entityType]
    IN  [id |-> id, canonical_name |-> name[1], normalized_name |-> name[2]]

\* an insert of the new entry whose error is not looked at
CreateErrorSwallowed(p, row, err) ==
    /\ pc' = [pc EXCEPT ![p] = "store"]
    /\ newEntry' = [newEntry EXCEPT ![p] = row]
    /\ UNCHANGED error

\* what follows the insert of the new entry (lines 148-150): an error is
\* thrown, otherwise the call goes on to store the mapping
AfterCreate(p, row, err) ==
    IF err # NoError
    THEN /\ pc' = [pc EXCEPT ![p] = "failed"]
         /\ error' = [error EXCEPT ![p] = err]
         /\ UNCHANGED newEntry
    ELSE /\ pc' = [pc EXCEPT ![p] = "store"]
         /\ newEntry' = [newEntry EXCEPT ![p] = row]
         /\ UNCHANGED error

\* Step 4 (lines 125-150): the insert of the new canonical entry.
Create(p, faults) ==
    /\ pc[p] = "create"
    /\ LET table == CanonicalTable(req[p].entityType)
           row == CanonicalRow(req[p], FreshId(table))
       IN  \E fault \in faults :
             LET err == CanonicalInsertError(table, row, fault)
             IN  /\ tables' = IF err = NoError
                              THEN [tables EXCEPT ![table] = @ \cup {row}] ELSE tables
                 /\ calls' = [calls EXCEPT ![p] =
                                 Append(@, StoreCall("insert", table, row, err))]
                 /\ AfterCreate(p, row, err)
    /\ UNCHANGED <<req, entries, bestMatch, bestScore, result, returned, ncalls>>
    /\ UNCHANGED outside

\* Step 4, continued (lines 152-161): the mapping of the new entry is written
\* and the new id returned.
Store(p, faults) ==
    /\ pc[p] = "store"
    /\ \E fault \in faults :
         InsertMapping(p, MappingRow(req[p], newEntry[p].id, "created", <<1, 1>>), fault)
    /\ UNCHANGED <<req, entries, bestMatch, bestScore, newEntry, ncalls>>
    /\ UNCHANGED outside

\* Calls of resolveCanonical run concurrently (the parsers are separate
\* processes on one store) and any insert may fail.
Next ==
    \E p \in Procs :
        \/ Start(p)
        \/ Lookup(p)
        \/ Scan(p)
        \/ Accept(p, BOOLEAN)
        \/ Create(p, BOOLEAN)
        \/ Store(p, BOOLEAN)

Spec == Init /\ [][Next]_vars

\* One call at a time, and no insert fails but on a constraint of the schema.
Alone(p) == \A q \in Procs \ {p} : ~Running(q)

NextSeq ==
    \E p \in Procs :
        \/ Alone(p) /\ Start(p)
        \/ Alone(p) /\ Lookup(p)
        \/ Alone(p) /\ Scan(p)
        \/ Alone(p) /\ Accept(p, {FALSE})
        \/ Alone(p) /\ Create(p, {FALSE})
        \/ Alone(p) /\ Store(p, {FALSE})

SpecSeq == Init /\ [][NextSeq]_vars

\* ------------------------------------------------------------- normalizer

\* the pieces the strings given to normalizeText are made of
Tokens == {<<"a">>, <<"1">>, <<" ">>, <<"p","c">>, <<"p","c","s">>}

\* the number of pieces of such a string
MaxTokens == 3

RECURSIVE Concat(_)
Concat(parts) == IF parts = <<>> THEN <<>> ELSE Head(parts) \o Concat(Tail(parts))

Texts == {Concat(parts) : parts \in UNION {[1..n -> Tokens] : n \in 1..MaxTokens}}

InitNormalize ==
    /\ tables = EmptyStore
    /\ Idle
    /\ text \in Texts
    /\ keys = <<>>
    /\ NoQuery
    /\ NoIngestion

\* normalizeText called on the string, then on what it returned for it (as
\* line 143 calls it on a name made from a key)
Normalize ==
    /\ Len(keys) < 2
    /\ keys' = Append(keys, normalizeText(IF keys = <<>> THEN text ELSE keys[Len(keys)]))
    /\ UNCHANGED <<tables, pc, req, entries, bestMatch, bestScore, newEntry, result,
                   error, calls, returned, ncalls, text, queryVars, ingestVars>>

SpecNormalize == InitNormalize /\ [][Normalize]_vars

\* ----------------------------------------------------------- query intent

\* An object with optional keys is the function of the keys it has.
With(obj, key, value) == (key :> value) @@ obj

Has(obj, key) == key \in DOMAIN obj

\* array.includes(value)
Includes(array, value) == \E i \in 1..Len(array) : array[i] = value

\* the enumerations of QueryIntentSchema (queryIntentSchema.ts 12-37)
MetricEnum == {"revenue", "orders", "items_sold", "per_item_revenue"}

DimensionEnum ==
    {"location", "product", "category", "date", "hour", "fulfillment_method", "provider"}

LocationEnum == {"airport", "downtown", "mall", "university"}

FulfillmentEnum == {"delivery", "pickup", "dine_in"}

ProviderEnum == {"location", "product", "category", "time", "fulfillment_method", "provider"}

SortByEnum == {"value", "count", "name", "date"}

SortOrderEnum == {"asc", "desc"}

\* /^\d{4}-(0[1-9]|1[0-2])-(0[1-9]|[12][0-9]|3[01])$/
DateRegex(s) ==
    /\ Len(s) = 10
    /\ \A i \in 1..4 : s[i] \in DigitChars
    /\ s[5] = "-"
    /\ \/ s[6] = "0" /\ s[7] \in DigitChars \ {"0"}
       \/ s[6] = "1" /\ s[7] \in {"0", "1", "2"}
    /\ s[8] = "-"
    /\ \/ s[9] = "0" /\ s[10] \in DigitChars \ {"0"}
       \/ s[9] \in {"1", "2"} /\ s[10] \in DigitChars
       \/ s[9] = "3" /\ s[10] \in {"0", "1"}

\* z.array(z.enum(...))
ArrayOf(array, enum) == \A i \in 1..Len(array) : array[i] \in enum

\* the filters object of the schema (lines 16-34); categories and products are
\* arrays of any strings
FiltersSchema(filters) ==
    /\ Has(filters, "date_range") =>
           DateRegex(filters.date_range.start) /\ DateRegex(filters.date_range.end)
    /\ Has(filters, "locations") => ArrayOf(filters.locations, LocationEnum)
    /\ Has(filters, "fulfillmentMethods") =>
           ArrayOf(filters.fulfillmentMethods, FulfillmentEnum)
    /\ Has(filters, "providers") => ArrayOf(filters.providers, ProviderEnum)

\* z.array(...) without min(1)
GroupBySchemaMayBeEmpty(groupBy) == ArrayOf(groupBy, DimensionEnum)

\* z.array(...).min(1)
GroupBySchema(groupBy) == ArrayOf(groupBy, DimensionEnum) /\ Len(groupBy) >= 1

\* QueryIntentSchema (lines 11-38)
QueryIntentSchema(intent) ==
    /\ intent.metric \in MetricEnum
    /\ GroupBySchema(intent.groupBy)
    /\ FiltersSchema(intent.filters)
    /\ Has(intent, "limit") => intent.limit \in Int
    /\ Has(intent, "sortBy") => intent.sortBy \in SortByEnum
    /\ Has(intent, "sortOrder") => intent.sortOrder \in SortOrderEnum

\* The intents the interpreter is given to answer with.
Feb28 == <<"2","0","2","4","-","0","2","-","2","8">>
Feb29 == <<"2","0","2","4","-","0","2","-","2","9">>
Mar10 == <<"2","0","2","4","-","0","3","-","1","0">>
Mar11 == <<"2","0","2","4","-","0","3","-","1","1">>
BadDate == <<"2","0","2","4","-","3","-","1","0">>

DateRange(start, end) == [start |-> start, end |-> end]

NoFilters == <<>>

GivenFilters ==
    { NoFilters,
      With(NoFilters, "date_range", DateRange(Feb29, Mar10)),
      With(NoFilters, "date_range", DateRange(Mar10, BadDate)),
      With(NoFilters, "locations", <<>>),
      With(NoFilters, "locations", <<"downtown">>),
      With(NoFilters, "fulfillmentMethods", <<"delivery">>),
      With(NoFilters, "providers", <<"provider">>),
      With(NoFilters, "products", <<>>),
      With(NoFilters, "products", <<"Latte">>),
      With(NoFilters, "categories", <<>>),
      With(NoFilters, "categories", <<"Drinks">>),
      With(With(NoFilters, "products", <<"Latte">>), "locations", <<"downtown", "mall">>) }

GivenGroupBys ==
    { <<d>> : d \in DimensionEnum } \cup
    { <<"location", "product">>, <<"product", "location">>, <<"date", "hour">>,
      <<"hour", "date">>, <<>>, <<"region">> }

GivenMetrics == MetricEnum \cup {"unknown_metric"}

GivenLimits == {-1, 0, 1, 2}

\* sortBy and sortOrder, each given or not
GivenSorts ==
    { <<>>,
      With(<<>>, "sortBy", "value"),
      With(With(<<>>, "sortBy", "value"), "sortOrder", "desc"),
      With(With(<<>>, "sortBy", "count"), "sortOrder", "asc"),
      With(<<>>, "sortBy", "name"),
      With(With(<<>>, "sortBy", "name"), "sortOrder", "desc"),
      With(With(<<>>, "sortBy", "date"), "sortOrder", "asc"),
      With(With(<<>>, "sortBy", "date"), "sortOrder", "desc"),
      With(<<>>, "sortOrder", "desc"),
      With(<<>>, "sortBy", "price"),
      With(With(<<>>, "sortBy", "value"), "sortOrder", "down") }

GivenIntents ==
    { [metric |-> m, groupBy |-> g, filters |-> f] @@ sort @@ lim :
        m \in GivenMetrics, g \in GivenGroupBys, f \in GivenFilters, sort \in GivenSorts,
        lim \in {<<>>} \cup {With(<<>>, "limit", l) : l \in GivenLimits} }

\* --------------------------------------------------------- query compiler

\* a column of a table, and an sql`...` expression over one
Column(table, column) == [fn |-> "column", table |-> table, column |-> column]

Sql(fn, table, column) == [fn |-> fn, table |-> table, column |-> column]

\* a variable not assigned yet
Undefined == Sql("undefined", "", "")

\* the number the digits s[i..j] write
RECURSIVE NumberAt(_, _, _)
NumberAt(s, i, j) ==
    IF j < i THEN 0
    ELSE 10 * NumberAt(s, i, j - 1) + (CHOOSE n \in 0..9 : ToString(n) = s[j])

\* the days from 1970-01-01 to a day of the calendar
DaysFromCivil(year, month, day) ==
    LET y == IF month <= 2 THEN year - 1 ELSE year
        era == y \div 400
        yoe == y - era * 400
        doy == (153 * (IF month > 2 THEN month - 3 ELSE month + 9) + 2) \div 5 + day - 1
        doe == yoe * 365 + yoe \div 4 - yoe \div 100 + doy
    IN  era * 146097 + doe - 719468

\* new Date("YYYY-MM-DD"): the instant <<day, millisecond of the day>> at
\* which the day starts in UTC
NewDate(s) == <<DaysFromCivil(NumberAt(s, 1, 4), NumberAt(s, 6, 7), NumberAt(s, 9, 10)), 0>>

\* date.setUTCHours(hours, minutes, seconds, ms)
SetUTCHours(date, hours, minutes, seconds, ms) ==
    <<date[1], ((hours * 60 + minutes) * 60 + seconds) * 1000 + ms>>

\* the switch on the metric (lines 65-84)
ValueExpr(metric) ==
    CASE metric = "revenue" -> Sql("sum", "orders", "total")
      [] metric = "orders" -> Sql("count", "orders", "order_id")
      [] metric = "items_sold" -> Sql("sum", "order_items", "quantity")
      [] metric = "per_item_revenue" -> Sql("sum", "order_items", "unit_price * quantity")
      [] OTHER -> Undefined

FromOrdersTable(metric) == metric \in {"revenue", "orders"}

\* obj.key = value when the condition holds
SetIf(cond, obj, key, value) == IF cond THEN With(obj, key, value) ELSE obj

\* selectShape (lines 86-116)
SelectShape(metric, groupBy) ==
    LET s0 == [value |-> ValueExpr(metric)]
        s1 == SetIf(Includes(groupBy, "location"), s0, "store_id",
                    Column("orders", "store_id"))
        s2 == SetIf(Includes(groupBy, "product"), s1, "product",
                    Column("canonical_items", "canonical_name"))
        s3 == SetIf(Includes(groupBy, "category"), s2, "category",
                    Column("canonical_categories", "canonical_name"))
        s4 == SetIf(Includes(groupBy, "date"), s3, "created_at",
                    Sql("date", "orders", "created_at"))
        s5 == SetIf(Includes(groupBy, "hour"), s4, "created_at",
                    Sql("date_trunc_hour", "orders", "created_at"))
        s6 == SetIf(Includes(groupBy, "fulfillment_method"), s5, "fulfillment_method",
                    Column("orders", "fulfillment_method"))
    IN  SetIf(Includes(groupBy, "provider"), s6, "provider", Column("orders", "provider"))

TableJoin(kind, table, left, right) == [kind |-> kind, table |-> table, on |-> <<left, right>>]

\* needOrdersJoin (lines 125-134): an array given is truthy, empty or not
NeedOrdersJoin(groupBy, filters) ==
    \/ Has(filters, "locations")
    \/ Has(filters, "fulfillmentMethods")
    \/ Has(filters, "date_range")
    \/ Has(filters, "providers")
    \/ Includes(groupBy, "location")
    \/ Includes(groupBy, "fulfillment_method")
    \/ Includes(groupBy, "date")
    \/ Includes(groupBy, "hour")
    \/ Includes(groupBy, "provider")

\* needOrderItemsJoin (lines 143-147)
NeedOrderItemsJoin(groupBy, filters) ==
    \/ Has(filters, "products")
    \/ Has(filters, "categories")
    \/ Includes(groupBy, "product")
    \/ Includes(groupBy, "category")

NeedItemsJoin(groupBy, filters) == Has(filters, "products") \/ Includes(groupBy, "product")

\* the category join made for the filter only
CategoriesJoinOnFilter(groupBy, filters) == Has(filters, "categories")

NeedCategoriesJoin(groupBy, filters) ==
    Has(filters, "categories") \/ Includes(groupBy, "category")

\* the joins (lines 123-169), in the order they are added
Joins(metric, groupBy, filters) ==
    LET other ==
            IF metric \in {"items_sold", "per_item_revenue"}
            THEN IF NeedOrdersJoin(groupBy, filters)
                 THEN <<TableJoin("inner", "orders", Column("order_items", "order_id"),
                             Column("orders", "order_id"))>>
                 ELSE <<>>
            ELSE IF metric \in {"revenue", "orders"} /\ NeedOrderItemsJoin(groupBy, filters)
                 THEN <<TableJoin("left", "order_items", Column("order_items", "order_id"),
                             Column("orders", "order_id"))>>
                 ELSE <<>>
        items ==
            IF NeedItemsJoin(groupBy, filters)
            THEN <<TableJoin("left", "canonical_items",
                        Column("order_items", "canonical_item_id"),
                        Column("canonical_items", "id"))>>
            ELSE <<>>
        categories ==
            IF NeedCategoriesJoin(groupBy, filters)
            THEN <<TableJoin("left", "canonical_categories",
                        Column("order_items", "canonical_category_id"),
                        Column("canonical_categories", "id"))>>
            ELSE <<>>
    IN  other \o items \o categories

Condition(op, expr, args) == [op |-> op, expr |-> expr, args |-> args]

\* filters.key?.length, and the inArray it adds
InArrayIf(filters, key, expr) ==
    IF Has(filters, key) /\ Len(filters[key]) > 0
    THEN <<Condition("inArray", expr, filters[key])>>
    ELSE <<>>

\* the condition on the day range (lines 174-185): gte the start of the first
\* day and lte the end of the last, which is its 23:59:59.999
DateRangeCondition(range) ==
    LET endOfDay == SetUTCHours(NewDate(range.end), 23, 59, 59, 999)
    IN  Condition("gte_lte", Column("orders", "created_at"),
                  <<NewDate(range.start), endOfDay>>)

\* whereConditions (lines 171-215)
WhereConditions(filters) ==
    (IF Has(filters, "date_range") THEN <<DateRangeCondition(filters.date_range)>> ELSE <<>>)
    \o InArrayIf(filters, "locations", Column("orders", "store_id"))
    \o InArrayIf(filters, "fulfillmentMethods", Column("orders", "fulfillment_method"))
    \o InArrayIf(filters, "providers", Column("orders", "provider"))
    \o InArrayIf(filters, "products", Column("canonical_items", "canonical_name"))
    \o InArrayIf(filters, "categories", Column("canonical_categories", "canonical_name"))

\* the loop over groupBy (lines 226-252); acc is <<groupByColumns, groupByTimeExpr>>
RECURSIVE GroupFrom(_, _, _)
GroupFrom(groupBy, i, acc) ==
    IF i > Len(groupBy) THEN acc
    ELSE LET dim == groupBy[i]
             day == Sql("date", "orders", "created_at")
             hour == Sql("date_trunc_hour", "orders", "created_at")
         IN  GroupFrom(groupBy, i + 1,
                CASE dim = "location" ->
                        <<Append(acc[1], Column("orders", "store_id")), acc[2]>>
                  [] dim = "product" ->
                        <<Append(acc[1], Column("canonical_items", "canonical_name")), acc[2]>>
                  [] dim = "category" ->
                        <<Append(acc[1], Column("canonical_categories", "canonical_name")),
                          acc[2]>>
                  [] dim = "date" -> <<Append(acc[1], day), day>>
                  [] dim = "hour" -> <<Append(acc[1], day), hour>>
                  [] dim = "fulfillment_method" ->
                        <<Append(acc[1], Column("orders", "fulfillment_method")), acc[2]>>
                  [] dim = "provider" ->
                        <<Append(acc[1], Column("orders", "provider")), acc[2]>>
                  [] OTHER -> acc)

\* the switch on sortBy (lines 261-274)
SortColumn(sortBy, groupByTimeExpr) ==
    CASE sortBy = "value" -> Sql("alias", "", "value")
      [] sortBy = "count" -> Sql("count", "", "*")
      [] sortBy = "name" -> Column("canonical_items", "canonical_name")
      [] sortBy = "date" -> groupByTimeExpr
      [] OTHER -> Undefined

\* the ordering (lines 259-282): none without a sort column
OrderBy(intent, groupByTimeExpr) ==
    IF ~Has(intent, "sortBy") THEN <<>>
    ELSE LET sortColumn == SortColumn(intent.sortBy, groupByTimeExpr)
         IN  IF sortColumn = Undefined THEN <<>>
             ELSE <<[expr |-> sortColumn,
                     direction |-> IF Has(intent, "sortOrder") /\ intent.sortOrder = "desc"
                                   THEN "desc" ELSE "asc"]>>

\* if (limit): a limit given and not 0
Limited(intent) == Has(intent, "limit") /\ intent.limit # 0

\* buildQueryPlan (lines 58-289) for a metric of the switch
buildQueryPlan(intent) ==
    LET grouped == GroupFrom(intent.groupBy, 1, <<<<>>, Undefined>>)
        plan == [select |-> SelectShape(intent.metric, intent.groupBy),
                 from |-> IF FromOrdersTable(intent.metric) THEN "orders" ELSE "order_items",
                 joins |-> Joins(intent.metric, intent.groupBy, intent.filters),
                 where |-> WhereConditions(intent.filters),
                 groupBy |-> grouped[1],
                 orderBy |-> OrderBy(intent, grouped[2])]
    IN  IF Limited(intent) THEN With(plan, "limit", intent.limit) ELSE plan

\* the relations of the plan: its base relation and the ones it joins
Relations(plan) == {plan.from} \cup {plan.joins[i].table : i \in 1..Len(plan.joins)}

\* the tables the expressions of the sequence are over
TablesOf(exprs) == {exprs[i].table : i \in 1..Len(exprs)} \ {""}

\* the tables the plan refers to in its select list, join conditions,
\* conditions, grouping and ordering
Referenced(plan) ==
    ({plan.select[k].table : k \in DOMAIN plan.select}
        \cup UNION {TablesOf(plan.joins[i].on) : i \in 1..Len(plan.joins)}
        \cup {plan.where[i].expr.table : i \in 1..Len(plan.where)}
        \cup TablesOf(plan.groupBy)
        \cup {plan.orderBy[i].expr.table : i \in 1..Len(plan.orderBy)}) \ {""}

\* the plan groups by the expression
GroupsBy(plan, expr) == \E i \in 1..Len(plan.groupBy) : plan.groupBy[i] = expr

\* the plan joins the table
Joined(plan, table) == \E i \in 1..Len(plan.joins) : plan.joins[i].table = table

\* --------------------------------------------------------- query database

\* SQL NULL in a column of text or of a uuid, as the driver returns it
SqlNull == "NULL"

\* created_at of an order: timestamp (schema.ts 17) has microsecond
\* resolution; <<day since 1970-01-01, millisecond of the day, microsecond of
\* the millisecond>>, a time of day in UTC
Timestamp(date, hours, minutes, seconds, ms, us) ==
    <<NewDate(date)[1], ((hours * 60 + minutes) * 60 + seconds) * 1000 + ms, us>>

\* a <= b for timestamps
TimestampLe(a, b) ==
    \/ a[1] < b[1]
    \/ a[1] = b[1] /\ a[2] < b[2]
    \/ a[1] = b[1] /\ a[2] = b[2] /\ a[3] <= b[3]

\* the timestamp a JavaScript Date, which counts milliseconds, is sent as
TimestampOf(date) == <<date[1], date[2], 0>>

OrderRow(id, store, method, provider, createdAt, total) ==
    [order_id |-> id, store_id |-> store, fulfillment_method |-> method,
     provider |-> provider, created_at |-> createdAt, total |-> total]

OrderItemRow(id, order, item, category, quantity, unitPrice) ==
    [order_item_id |-> id, order_id |-> order, canonical_item_id |-> item,
     canonical_category_id |-> category, quantity |-> quantity, unit_price |-> unitPrice]

CanonicalNameRow(id, name) == [id |-> id, canonical_name |-> name]

\* The database after an ingestion: an order of two line items and an order of
\* one line item whose names were not resolved; money in cents.
IngestedDatabase ==
    [orders |->
        { OrderRow("o1", "downtown", "delivery", "doordash",
                   Timestamp(Mar10, 14, 30, 0, 0, 0), 1000),
          OrderRow("o2", "mall", "pickup", "square",
                   Timestamp(Mar11, 9, 5, 0, 0, 0), 500) },
     order_items |->
        { OrderItemRow("l1", "o1", "i1", "c1", 2, 300),
          OrderItemRow("l2", "o1", "i2", "c1", 1, 400),
          OrderItemRow("l3", "o2", SqlNull, SqlNull, 1, 500) },
     canonical_items |-> {CanonicalNameRow("i1", "Latte"), CanonicalNameRow("i2", "Mocha")},
     canonical_categories |-> {CanonicalNameRow("c1", "Drinks")}]

\* the row of nulls a left join gives a row without a match; a null quantity
\* or price adds nothing to a sum
NullRowOf(table) ==
    IF table = "order_items" THEN OrderItemRow(SqlNull, SqlNull, SqlNull, SqlNull, 0, 0)
    ELSE CanonicalNameRow(SqlNull, SqlNull)

\* the value of an expression of the plan on a row of the joined relations
Eval(expr, joined) ==
    LET row == joined[expr.table]
    IN  CASE expr.fn = "column" -> row[expr.column]
          [] expr.fn = "date" -> ToString(row[expr.column][1])
          [] expr.fn = "date_trunc_hour" ->
                ToString(<<row[expr.column][1], row[expr.column][2] \div 3600000>>)

\* a null compares equal to nothing
EqNotNull(a, b) == a = b /\ a # SqlNull

\* the rows of the joined relations after the joins from the i-th on
RECURSIVE JoinFrom(_, _, _, _)
JoinFrom(db, joins, i, joinedRows) ==
    IF i > Len(joins) THEN joinedRows
    ELSE LET join == joins[i]
             Matches(joined) ==
                 {With(joined, join.table, r) : r \in
                     {r \in db[join.table] :
                         LET both == With(joined, join.table, r)
                         IN  EqNotNull(Eval(join.on[1], both), Eval(join.on[2], both))}}
         IN  JoinFrom(db, joins, i + 1,
                UNION {IF Matches(joined) = {} /\ join.kind = "left"
                       THEN {With(joined, join.table, NullRowOf(join.table))}
                       ELSE Matches(joined) : joined \in joinedRows})

\* whether a row of the joined relations satisfies a condition
Satisfies(joined, condition) ==
    IF condition.op = "inArray"
    THEN Eval(condition.expr, joined) \in Range(condition.args)
    ELSE /\ TimestampLe(TimestampOf(condition.args[1]), Eval(condition.expr, joined))
         /\ TimestampLe(Eval(condition.expr, joined), TimestampOf(condition.args[2]))

\* the rows the plan aggregates: joined, then filtered
Selected(db, plan) ==
    {joined \in JoinFrom(db, plan.joins, 1, {(plan.from :> r) : r \in db[plan.from]}) :
        \A i \in 1..Len(plan.where) : Satisfies(joined, plan.where[i])}

\* the values of the GROUP BY expressions on a row
GroupKey(plan, joined) == [i \in 1..Len(plan.groupBy) |-> Eval(plan.groupBy[i], joined)]

RECURSIVE SumOver(_, _)
\* sum() of a product of columns over the rows of a group
SumOver(group, columns) ==
    IF group = {} THEN 0
    ELSE LET joined == CHOOSE j \in group : TRUE
             row == joined[columns[1]]
         IN  (IF Len(columns) = 2 THEN row[columns[2]]
              ELSE row[columns[2]] * row[columns[3]])
             + SumOver(group \ {joined}, columns)

\* the aggregate of the metric over the rows of a group
Aggregate(valueExpr, group) ==
    CASE valueExpr.fn = "count" -> Cardinality(group)
      [] valueExpr.column = "total" -> SumOver(group, <<"orders", "total">>)
      [] valueExpr.column = "quantity" -> SumOver(group, <<"order_items", "quantity">>)
      [] OTHER -> SumOver(group, <<"order_items", "unit_price", "quantity">>)

RECURSIVE Digits(_)
\* a number as the driver returns it: its decimal digits
Digits(n) ==
    IF n < 10 THEN <<ToString(n)>> ELSE Digits(n \div 10) \o <<ToString(n % 10)>>

\* Number(s) for a string of digits
Number(s) == NumberAt(s, 1, Len(s))

\* the row returned for a group: a value under every alias of the select list
ResultRow(plan, group) ==
    LET joined == CHOOSE j \in group : TRUE
    IN  [alias \in DOMAIN plan.select |->
            IF alias = "value" THEN Digits(Aggregate(plan.select.value, group))
            ELSE Eval(plan.select[alias], joined)]

\* the groups of the selected rows
Groups(db, plan) ==
    LET selected == Selected(db, plan)
    IN  {{joined \in selected : GroupKey(plan, joined) = key} :
            key \in {GroupKey(plan, joined) : joined \in selected}}

\* the order of the names in the database's collation
Collation == <<SqlNull, "Drinks", "Latte", "Mocha">>

\* the number an ORDER BY expression orders a group by
SortKey(plan, expr, group) ==
    LET joined == CHOOSE j \in group : TRUE
    IN  CASE expr.fn = "alias" -> Aggregate(plan.select.value, group)
          [] expr.fn = "count" -> Cardinality(group)
          [] expr.fn = "column" ->
                CHOOSE i \in 1..Len(Collation) : Collation[i] = Eval(expr, joined)
          [] expr.fn = "date" -> joined[expr.table][expr.column][1]
          [] expr.fn = "date_trunc_hour" ->
                joined[expr.table][expr.column][1] * 24
                    + joined[expr.table][expr.column][2] \div 3600000

\* the groups in an order the ORDER BY clause allows: any order without one
InOrder(plan, groups) ==
    \A i, j \in 1..Len(groups) :
        i < j /\ plan.orderBy # <<>> =>
            LET a == SortKey(plan, plan.orderBy[1].expr, groups[i])
                b == SortKey(plan, plan.orderBy[1].expr, groups[j])
            IN  IF plan.orderBy[1].direction = "desc" THEN a >= b ELSE a <= b

\* what the database refuses: a relation referred to and not joined, a select
\* or ORDER BY expression over a column neither grouped by nor aggregated, a
\* negative LIMIT
Refused(plan) ==
    \/ ~(Referenced(plan) \subseteq Relations(plan))
    \/ \E alias \in DOMAIN plan.select \ {"value"} : ~GroupsBy(plan, plan.select[alias])
    \/ \E i \in 1..Len(plan.orderBy) :
          plan.orderBy[i].expr.table # "" /\ ~GroupsBy(plan, plan.orderBy[i].expr)
    \/ Has(plan, "limit") /\ plan.limit < 0

\* the first rows up to the LIMIT, all of them without one
Capped(plan, rows) ==
    IF Has(plan, "limit") /\ plan.limit < Len(rows) THEN SubSeq(rows, 1, plan.limit)
    ELSE rows

\* the results the database can give for the plan
Results(db, plan) ==
    {Capped(plan, [i \in 1..Len(groups) |-> ResultRow(plan, groups[i])]) :
        groups \in {o \in Orders(Groups(db, plan)) : InOrder(plan, o)}}

\* ------------------------------------------------------------ POST handler

\* LLMResponseSchema.parse(parsedJson) (line 631): the intent goes on, or the
\* handler throws what the schema throws
Validate ==
    /\ stage = "received"
    /\ stage' = IF QueryIntentSchema(parsedIntent) THEN "validated" ELSE "rejected"
    /\ UNCHANGED <<parsedIntent, query, queryRows, chartData, database>>
    /\ UNCHANGED <<resolverVars, normalizerVars, ingestVars>>

\* executeQueryIntent up to the query built (lines 43-47); the default of the
\* switch on the metric throws, which the handler catches (line 641)
Build ==
    /\ stage = "validated"
    /\ IF ValueExpr(parsedIntent.metric) = Undefined
       THEN stage' = "threw" /\ UNCHANGED query
       ELSE stage' = "built" /\ query' = buildQueryPlan(parsedIntent)
    /\ UNCHANGED <<parsedIntent, queryRows, chartData, database>>
    /\ UNCHANGED <<resolverVars, normalizerVars, ingestVars>>

\* const rows = await query (line 48): the database gives the rows, or refuses
\* the query, which the handler catches (line 641)
Run ==
    /\ stage = "built"
    /\ IF Refused(query)
       THEN stage' = "failed" /\ UNCHANGED queryRows
       ELSE stage' = "fetched" /\ queryRows' \in Results(database, query)
    /\ UNCHANGED <<parsedIntent, query, chartData, database>>
    /\ UNCHANGED <<resolverVars, normalizerVars, ingestVars>>

\* a value that is not undefined, null or the empty string
Truthy(row, key) == Has(row, key) /\ row[key] \notin {SqlNull, ""}

\* new Date(string).toLocaleString(): the timestamp as the server's locale
\* writes it
ToLocaleString(string) == "locale(" \o string \o ")"

\* the part pushed for a field of the row that is truthy
PartIf(row, key) == IF Truthy(row, key) THEN <<<<row[key]>>>> ELSE <<>>

\* parts with the name pushed first
PartsNameFirst(row) ==
    PartIf(row, "canonical_name") \o PartIf(row, "store_id")
        \o PartIf(row, "fulfillment_method") \o PartIf(row, "provider")
        \o (IF Truthy(row, "created_at")
            THEN <<<<ToLocaleString(row.created_at)>>>> ELSE <<>>)

\* parts (lines 298-307)
Parts(row) ==
    PartIf(row, "store_id") \o PartIf(row, "canonical_name")
        \o PartIf(row, "fulfillment_method") \o PartIf(row, "provider")
        \o (IF Truthy(row, "created_at")
            THEN <<<<ToLocaleString(row.created_at)>>>> ELSE <<>>)

\* transformQueryResult (lines 291-317); a name is the sequence of the pieces
\* it is written with
transformQueryResult(data, groupBy) ==
    [i \in 1..Len(data) |->
        LET row == data[i]
            parts == Parts(row)
        IN  [name |-> IF Len(groupBy) > 0 /\ Len(parts) > 0
                      THEN Join(parts, " - ") ELSE <<"Total">>,
             value |-> IF Has(row, "value") THEN Number(row.value) ELSE 0]]

\* return transformQueryResult(rows, intent.groupBy) (line 55)
Transform ==
    /\ stage = "fetched"
    /\ stage' = "answered"
    /\ chartData' = transformQueryResult(queryRows, parsedIntent.groupBy)
    /\ UNCHANGED <<parsedIntent, query, queryRows, database>>
    /\ UNCHANGED <<resolverVars, normalizerVars, ingestVars>>

\* A request whose completion parsed to an intent (line 629), the resolver and
\* the normalizer not taking part.
InitQuery ==
    /\ tables = EmptyStore
    /\ Idle
    /\ NoText
    /\ NoIngestion
    /\ stage = "received"
    /\ parsedIntent \in GivenIntents
    /\ query = <<>>
    /\ queryRows = <<>>
    /\ chartData = <<>>
    /\ database = IngestedDatabase

NextQuery ==
    \/ Validate
    \/ Build
    \/ Run
    \/ Transform

SpecQuery == InitQuery /\ [][NextQuery]_vars

\* ------------------------------------------------------------- day ranges

\* The day ranges asked for, and the times of day an order can have around
\* the ends of a day.
GivenRanges ==
    { DateRange(Feb29, Mar10), DateRange(Mar10, Mar10), DateRange(Mar10, Mar11),
      DateRange(Feb29, Feb29), DateRange(Mar11, Mar10) }

RangeIntents ==
    { [metric |-> m, groupBy |-> g, filters |-> With(NoFilters, "date_range", r)] :
        m \in MetricEnum, g \in {<<"location">>, <<"date">>}, r \in GivenRanges }

GivenTimestamps ==
    UNION { { Timestamp(d, 0, 0, 0, 0, 0), Timestamp(d, 0, 0, 0, 0, 1),
              Timestamp(d, 12, 0, 0, 0, 0), Timestamp(d, 23, 59, 59, 999, 0),
              Timestamp(d, 23, 59, 59, 999, 1), Timestamp(d, 23, 59, 59, 999, 999) } :
            d \in {Feb28, Feb29, Mar10, Mar11} }

\* a database of one order of one line item, created at t
DatabaseAt(t) ==
    [orders |-> {OrderRow("o1", "downtown", "delivery", "doordash", t, 1000)},
     order_items |-> {OrderItemRow("l1", "o1", "i1", "c1", 2, 300)},
     canonical_items |-> {CanonicalNameRow("i1", "Latte")},
     canonical_categories |-> {CanonicalNameRow("c1", "Drinks")}]

InitDateRange ==
    /\ tables = EmptyStore
    /\ Idle
    /\ NoText
    /\ NoIngestion
    /\ stage = "received"
    /\ parsedIntent \in RangeIntents
    /\ query = <<>>
    /\ queryRows = <<>>
    /\ chartData = <<>>
    /\ database \in {DatabaseAt(t) : t \in GivenTimestamps}

SpecDateRange == InitDateRange /\ [][NextQuery]_vars

\* ------------------------------------------------------- result transform

\* The rows given to transformQueryResult: each field absent, null, empty or
\* set, under the aliases transformQueryResult reads and one it does not.
FieldValues(value) == {<<>>} \cup {[k \in {1} |-> v] : v \in {SqlNull, "", value}}

GivenRows ==
    { [value |-> <<"7">>]
        @@ (IF a = <<>> THEN <<>> ELSE [store_id |-> a[1]])
        @@ (IF b = <<>> THEN <<>> ELSE [canonical_name |-> b[1]])
        @@ (IF c = <<>> THEN <<>> ELSE [fulfillment_method |-> c[1]])
        @@ (IF d = <<>> THEN <<>> ELSE [provider |-> d[1]])
        @@ (IF e = <<>> THEN <<>> ELSE [created_at |-> e[1]])
        @@ (IF f THEN [product |-> "Mocha"] ELSE <<>>) :
        a \in FieldValues("downtown"), b \in FieldValues("Latte"),
        c \in FieldValues("delivery"), d \in FieldValues("doordash"),
        e \in FieldValues("19792"), f \in BOOLEAN }

GivenGroupings ==
    { <<>>, <<"location", "product">>, <<"product", "location">>, <<"date">>,
      <<"provider", "fulfillment_method", "location">> }

InitTransform ==
    /\ tables = EmptyStore
    /\ Idle
    /\ NoText
    /\ NoIngestion
    /\ stage = "fetched"
    /\ parsedIntent \in {[metric |-> "revenue", groupBy |-> g, filters |-> NoFilters] :
                             g \in GivenGroupings}
    /\ query = <<>>
    /\ queryRows \in {<<>>} \cup {<<row>> : row \in GivenRows}
    /\ chartData = <<>>
    /\ database = <<>>

SpecTransform == InitTransform /\ [][Transform]_vars

\* -------------------------------------------------------------- ingestion

\* A run of a parser, parse_doordash_orders.js; the Toast and the Square
\* parser have the same main and insertOrder. The run is one process that
\* awaits each store call and each resolveCanonical call in turn.
Parser == "p1"

OrderItem(name, category, options) ==
    [name |-> name, category |-> category, options |-> options]

Order(order_items) == [order_items |-> order_items]

ItemTaco == OrderItem(RawTaco, RawTea, <<"extra">>)
ItemTacos == OrderItem(RawTacos, Null, <<>>)
ItemFry == OrderItem(RawFry, Null, <<>>)
ItemPcs == OrderItem(RawPcsOnly, Null, <<>>)

\* the files the runs read: data.orders
GivenData ==
    { <<>>,
      <<Order(<<ItemFry>>), Order(<<ItemTaco, ItemTacos, ItemFry>>)>>,
      <<Order(<<ItemTacos, ItemPcs, ItemFry>>), Order(<<ItemTaco>>)>> }

\* order.order_items of the order main is at
ItemsOf(k) == dataOrders[k].order_items

\* an insert the run has made, with whether the store answered an error; an
\* error insertOrder has caught is logged with the table "caught"
InsertAttempt(table, order, item, failed) ==
    [table |-> table, order |-> order, item |-> item, failed |-> failed]

Position(s, k, j) ==
    /\ step' = s
    /\ orderIndex' = k
    /\ itemIndex' = j

\* insertOrder returns: main's loop takes the next order or, after the last
\* one, main ends (lines 223-228)
NextOrder ==
    IF orderIndex < Len(dataOrders)
    THEN Position("insertOrder", orderIndex + 1, 0)
    ELSE Position("processed", orderIndex + 1, 0)

\* the loop of insertOrder over formattedItems (line 160), at its j-th row
InsertFrom(j, items) ==
    IF j <= Len(items) THEN Position("insertItem", orderIndex, j) ELSE NextOrder

\* the loop of formatOrderItems over items (line 95), at the j-th item; after
\* the last one results are returned to insertOrder (lines 112, 158)
FormatFrom(j, items) ==
    IF j <= Len(ItemsOf(orderIndex))
    THEN Position("resolveItem", orderIndex, j)
    ELSE InsertFrom(1, items)

\* main, up to its loop (lines 201-220): the run exits when the connectivity
\* check fails or the file has no orders
TestConnection ==
    /\ step = "main"
    /\ \E connectionOk \in BOOLEAN :
         IF connectionOk /\ Len(dataOrders) > 0
         THEN Position("insertOrder", 1, 0)
         ELSE Position("exited", 0, 0)
    /\ UNCHANGED <<dataOrders, canonicalItemId, formattedItems, log>>
    /\ UNCHANGED <<resolverVars, normalizerVars, queryVars>>

\* insertOrder, the insert of the order (lines 142-158): on an error the
\* order is given up, otherwise formatOrderItems is called
InsertOrderRecord ==
    /\ step = "insertOrder"
    /\ \E orderError \in BOOLEAN :
         /\ log' = Append(log, InsertAttempt("orders", orderIndex, 0, orderError))
         /\ IF orderError
            THEN NextOrder /\ UNCHANGED formattedItems
            ELSE formattedItems' = <<>> /\ FormatFrom(1, <<>>)
    /\ UNCHANGED <<dataOrders, canonicalItemId>>
    /\ UNCHANGED <<resolverVars, normalizerVars, queryVars>>

\* formatOrderItems calls resolveCanonical(supabase, item.name, 'item')
\* (line 96)
ResolveItem ==
    /\ step = "resolveItem"
    /\ Call(Parser, Request(ItemsOf(orderIndex)[itemIndex].name, "item", NoThreshold))
    /\ step' = "awaitItem"
    /\ UNCHANGED <<dataOrders, orderIndex, itemIndex, canonicalItemId, formattedItems, log>>
    /\ UNCHANGED <<ncalls, normalizerVars, queryVars>>

\* the call of line 96 has returned canonicalItemId; formatOrderItems calls
\* resolveCanonical(supabase, item.category, 'category') (line 97)
ResolveCategory ==
    /\ step = "awaitItem"
    /\ pc[Parser] = "done"
    /\ canonicalItemId' = result[Parser]
    /\ Call(Parser, Request(ItemsOf(orderIndex)[itemIndex].category, "category",
                            NoThreshold))
    /\ step' = "awaitCategory"
    /\ UNCHANGED <<dataOrders, orderIndex, itemIndex, formattedItems, log>>
    /\ UNCHANGED <<ncalls, normalizerVars, queryVars>>

\* the call of line 97 has returned; the row of the item is pushed to results
\* (lines 99-109)
PushItem ==
    /\ step = "awaitCategory"
    /\ pc[Parser] = "done"
    /\ LET results == Append(formattedItems,
                             [item_id |-> itemIndex,
                              canonical_item_id |-> canonicalItemId,
                              canonical_category_id |-> result[Parser]])
       IN  /\ formattedItems' = results
           /\ FormatFrom(itemIndex + 1, results)
    /\ UNCHANGED <<dataOrders, canonicalItemId, log>>
    /\ UNCHANGED <<resolverVars, normalizerVars, queryVars>>

\* a call of resolveCanonical has thrown: the error leaves formatOrderItems
\* and is caught at the end of insertOrder (lines 193-195)
Catch ==
    /\ step \in {"awaitItem", "awaitCategory"}
    /\ pc[Parser] = "failed"
    /\ log' = Append(log, InsertAttempt("caught", orderIndex, itemIndex, TRUE))
    /\ NextOrder
    /\ UNCHANGED <<dataOrders, canonicalItemId, formattedItems>>
    /\ UNCHANGED <<resolverVars, normalizerVars, queryVars>>

\* an item insert whose error ends the order
ItemErrorEndsOrder(itemError) ==
    IF itemError
    THEN NextOrder
    ELSE IF ItemsOf(orderIndex)[formattedItems[itemIndex].item_id].options # <<>>
         THEN Position("insertOptions", orderIndex, itemIndex)
         ELSE InsertFrom(itemIndex + 1, formattedItems)

\* what follows the insert of a line item (lines 166-181): on an error the
\* loop continues with the next row, otherwise the options of the raw item,
\* when it has some, are inserted
AfterItemInsert(itemError) ==
    IF itemError
    THEN InsertFrom(itemIndex + 1, formattedItems)
    ELSE IF ItemsOf(orderIndex)[formattedItems[itemIndex].item_id].options # <<>>
         THEN Position("insertOptions", orderIndex, itemIndex)
         ELSE InsertFrom(itemIndex + 1, formattedItems)

\* insertOrder, the insert of a line item (lines 160-169)
InsertItem ==
    /\ step = "insertItem"
    /\ \E itemError \in BOOLEAN :
         /\ log' = Append(log, InsertAttempt("order_items", orderIndex,
                                             formattedItems[itemIndex].item_id, itemError))
         /\ AfterItemInsert(itemError)
    /\ UNCHANGED <<dataOrders, canonicalItemId, formattedItems>>
    /\ UNCHANGED <<resolverVars, normalizerVars, queryVars>>

\* insertOrder, the insert of the options of a line item (lines 181-189): an
\* error is logged and the loop goes on
InsertOptions ==
    /\ step = "insertOptions"
    /\ \E optionError \in BOOLEAN :
         log' = Append(log, InsertAttempt("order_item_options", orderIndex,
                                          formattedItems[itemIndex].item_id, optionError))
    /\ InsertFrom(itemIndex + 1, formattedItems)
    /\ UNCHANGED <<dataOrders, canonicalItemId, formattedItems>>
    /\ UNCHANGED <<resolverVars, normalizerVars, queryVars>>

InitIngest ==
    /\ tables \in {EmptyStore, EarlierStore}
    /\ Idle
    /\ NoText
    /\ NoQuery
    /\ step = "main"
    /\ dataOrders \in GivenData
    /\ orderIndex = 0
    /\ itemIndex = 0
    /\ canonicalItemId = NullId
    /\ formattedItems = <<>>
    /\ log = <<>>

\* The run and the calls of resolveCanonical it awaits; any insert may fail.
NextIngest ==
    \/ TestConnection
    \/ InsertOrderRecord
    \/ ResolveItem
    \/ ResolveCategory
    \/ PushItem
    \/ Catch
    \/ InsertItem
    \/ InsertOptions
    \/ Lookup(Parser)
    \/ Scan(Parser)
    \/ Accept(Parser, BOOLEAN)
    \/ Create(Parser, BOOLEAN)
    \/ Store(Parser, BOOLEAN)

SpecIngest == InitIngest /\ [][NextIngest]_vars

\* ----------------------------------------------------------------- claims

\* the store calls of p's current call that insert into one of tbls
Inserts(p, tbls) ==
    {i \in DOMAIN calls[p] : calls[p][i].op = "insert" /\ calls[p][i].table \in tbls}

\* the score of the i-th row step 2 fetched against the key of p's call
ScoreOf(p, i) == similarity(Normalized(req[p]), entries[p][i].normalized_name)

\* C3: in every reachable state each canonical table (items, categories)
\* holds at most one row per normalized_name.
CanonicalNamesUnique ==
    \A t \in CanonicalTables : \A r1, r2 \in tables[t] :
        r1.normalized_name = r2.normalized_name => r1 = r2

\* a call tried to insert a second entry of one normalized name
DuplicateEntryRefused ==
    \E p \in Procs : \E i \in Inserts(p, CanonicalTables) :
        calls[p][i].error = UniqueViolation

MappingKeysUnique ==
    \A t \in MappingTables : \A m1, m2 \in tables[t] :
        m1.normalized_raw_name = m2.normalized_raw_name => m1 = m2

MappingsKept == \A t \in MappingTables : tables[t] \subseteq tables'[t]

\* C4: in every reachable state each mapping table holds at most one row
\* per normalized raw key, and no step removes or changes a mapping row.
MappingsUniqueAndKept == []MappingKeysUnique /\ [][MappingsKept]_vars

\* a call tried to insert a second mapping of one key
DuplicateMappingRefused ==
    \E p \in Procs : \E i \in Inserts(p, MappingTables) :
        calls[p][i].error = UniqueViolation

\* C5: when the store reports an error on the insert of the new canonical
\* entry, the call fails with that error, returns no id and has written no
\* mapping.
CreateErrorIsFatal ==
    \A p \in Procs : \A i \in Inserts(p, CanonicalTables) :
        calls[p][i].error # NoError =>
            /\ pc[p] = "failed"
            /\ error[p] = calls[p][i].error
            /\ result[p] = NullId
            /\ Inserts(p, MappingTables) = {}

\* a call failed on a store failure of the insert of step 4
CreateFailed ==
    \E p \in Procs : pc[p] = "failed" /\ error[p] = StoreFailure

\* C6: when the store reports an error on a mapping insert, on the fuzzy
\* path or on the create path, the call still returns the id of the matched
\* or created entry.
MappingErrorIsNotFatal ==
    \A p \in Procs : \A i \in Inserts(p, MappingTables) :
        calls[p][i].error # NoError =>
            /\ pc[p] = "done"
            /\ error[p] = NoError
            /\ result[p] # NullId
            /\ result[p] = IF calls[p][i].row.mapping_method = "fuzzy"
                           THEN bestMatch[p].id ELSE newEntry[p].id

\* a mapping insert failed on the fuzzy path of one call and on the create
\* path of another
MappingInsertsFailed ==
    \E p, q \in Procs :
        /\ pc[p] = "done" /\ pc[q] = "done"
        /\ \E i \in Inserts(p, MappingTables) :
               calls[p][i].error = StoreFailure /\ calls[p][i].row.mapping_method = "fuzzy"
        /\ \E i \in Inserts(q, MappingTables) :
               calls[q][i].error = StoreFailure /\ calls[q][i].row.mapping_method = "created"

\* C7: the step of a call that looks up a key a mapping exists for returns
\* that mapping's canonical id, having made the one select on the mapping
\* table and nothing else: no read of the canonical table, no write.
CacheHitStep(p) ==
    (pc[p] = "lookup" /\ pc'[p] # "lookup") =>
        \A m \in tables[MappingTable(req[p].entityType)] :
            m.normalized_raw_name = Normalized(req[p]) =>
                /\ pc'[p] = "done"
                /\ result'[p] = m.canonical_id
                /\ calls'[p] = <<StoreCall("select", MappingTable(req[p].entityType),
                                           <<>>, NoError)>>
                /\ tables' = tables

CacheHitReturns == [][\A p \in Procs : CacheHitStep(p)]_vars

\* a call returned from the mapping of another raw name of the same key
CacheHit ==
    \E p \in Procs :
        /\ pc[p] = "done" /\ Len(calls[p]) = 1 /\ result[p] # NullId
        /\ \E m \in tables[MappingTable(req[p].entityType)] :
               m.normalized_raw_name = Normalized(req[p]) /\ m.raw_name # req[p].rawName

\* C9: the candidate the scan chooses is the first, in the order the store
\* gave the rows, of those with the highest score: every row before it scores
\* strictly less, no row after it scores more.
FirstBestKeepsLead ==
    \A p \in Procs :
        bestMatch[p] # NullRow =>
            \E i \in DOMAIN entries[p] :
                /\ entries[p][i] = bestMatch[p]
                /\ bestScore[p] = ScoreOf(p, i)
                /\ \A j \in DOMAIN entries[p] :
                       /\ j < i => ~ScoreGe(ScoreOf(p, j), bestScore[p])
                       /\ j > i => ~ScoreGt(ScoreOf(p, j), bestScore[p])

\* the scan chose one of two rows of equal score
TieSeen ==
    \E p \in Procs :
        /\ bestMatch[p] # NullRow
        /\ \E j \in DOMAIN entries[p] :
               entries[p][j] # bestMatch[p] /\ ScoreGe(ScoreOf(p, j), bestScore[p])

\* the step in which a call returns an id although an earlier call returned
\* one for the same key: it returns that id and inserts nothing
RepeatStep(p) ==
    (Running(p) /\ pc'[p] = "done") =>
        \A r \in returned :
            (r[1] = req[p].entityType /\ r[2] = Normalized(req[p])) =>
                /\ result'[p] = r[3]
                /\ tables' = tables
                /\ \A i \in DOMAIN calls'[p] : calls'[p][i].op # "insert"

\* C2: in sequential execution without store failures, a resolve of a raw
\* name whose key an earlier resolve of the same entity type returned an id
\* for returns the same id and creates no canonical row and no mapping row.
RepeatedResolveIsIdempotent == [][\A p \in Procs : RepeatStep(p)]_vars

\* "Taco" was resolved by creating its entry, and "Taco 12 pcs", of the same
\* key, then resolved to the same id from the mapping alone
RepeatedResolve ==
    \E p, q \in Procs :
        /\ p # q /\ pc[p] = "done" /\ pc[q] = "done"
        /\ req[p].rawName = RawTaco /\ req[q].rawName = RawTacoPcs
        /\ req[p].entityType = req[q].entityType
        /\ Len(calls[p]) = 4 /\ Len(calls[q]) = 1
        /\ result[p] # NullId /\ result[p] = result[q]

\* the lookup of p's call missed and its scan found a candidate of a score
\* above 0 and at or above the threshold
FuzzyCase(p) ==
    /\ Len(calls[p]) >= 2
    /\ \E i \in DOMAIN entries[p] :
           /\ ScoreGt(ScoreOf(p, i), ZeroScore)
           /\ ScoreGe(ScoreOf(p, i), Threshold(req[p]))

\* what a call on the fuzzy path has done when it returns: one insert, of the
\* 'fuzzy' mapping to the best candidate with its score as confidence
FuzzyOutcome(p) ==
    /\ Len(calls[p]) = 3
    /\ calls[p][3].op = "insert"
    /\ calls[p][3].table = MappingTable(req[p].entityType)
    /\ calls[p][3].row = [raw_name |-> req[p].rawName,
                          normalized_raw_name |-> Normalized(req[p]),
                          canonical_id |-> result[p],
                          mapping_method |-> "fuzzy",
                          confidence |-> bestScore[p]]
    /\ \E i \in DOMAIN entries[p] :
           /\ entries[p][i].id = result[p]
           /\ ScoreOf(p, i) = bestScore[p]
           /\ \A j \in DOMAIN entries[p] : ~ScoreGt(ScoreOf(p, j), bestScore[p])

Finished(p) == pc[p] \in {"done", "failed"}

\* the store reported no failure of its own to p's call and refused no row
\* for an absent value
NoFailure(p) ==
    \A i \in DOMAIN calls[p] : calls[p][i].error \notin {StoreFailure, NotNullViolation}

\* the canonical rows of the name p's call resolves
EntriesOf(p) ==
    {r \in tables[CanonicalTable(req[p].entityType)] :
        r.normalized_name = NameOf[req[p].rawName, req[p].entityType][2]}

\* C1: when two calls resolve the same raw name of the same entity type, no
\* mapping existed at either lookup and the name was new to the scan of one,
\* then both calls return, with the same id, and the canonical table holds
\* exactly one row of that name.
ConcurrentResolvesAgree ==
    \A p, q \in Procs :
        (/\ p # q /\ Finished(p) /\ Finished(q)
         /\ req[p] = req[q]
         /\ Len(calls[p]) >= 2 /\ Len(calls[q]) >= 2
         /\ Inserts(p, CanonicalTables) # {}
         /\ NoFailure(p) /\ NoFailure(q)) =>
            /\ pc[p] = "done" /\ pc[q] = "done"
            /\ result[p] = result[q]
            /\ Cardinality(EntriesOf(p)) = 1

\* the lookup of p's call missed and its scan found no candidate at or above
\* the threshold
CreateCase(p) ==
    /\ Len(calls[p]) >= 2
    /\ \A i \in DOMAIN entries[p] : ~ScoreGe(ScoreOf(p, i), Threshold(req[p]))

\* C10: when no mapping exists and no canonical entry scores at or above the
\* threshold, the call inserts one canonical entry, named by the title-cased
\* key (category) or the raw name without its quantity (item) and keyed by
\* the normalized form of that name, inserts one 'created' mapping of
\* confidence 1 to it, and returns its id.
NoMatchCreates ==
    \A p \in Procs :
        (CreateCase(p) /\ Finished(p)) =>
            /\ pc[p] = "done"
            /\ Len(calls[p]) = 4
            /\ calls[p][3].op = "insert"
            /\ calls[p][3].table = CanonicalTable(req[p].entityType)
            /\ calls[p][3].error = NoError
            /\ calls[p][3].row.canonical_name =
                   CanonicalNameOf(req[p].rawName, req[p].entityType)
            /\ calls[p][3].row.normalized_name =
                   normalizeText(calls[p][3].row.canonical_name)
            /\ calls[p][3].row \in tables[CanonicalTable(req[p].entityType)]
            /\ calls[p][4].op = "insert"
            /\ calls[p][4].table = MappingTable(req[p].entityType)
            /\ calls[p][4].row = [raw_name |-> req[p].rawName,
                                  normalized_raw_name |-> Normalized(req[p]),
                                  canonical_id |-> calls[p][3].row.id,
                                  mapping_method |-> "created",
                                  confidence |-> <<1, 1>>]
            /\ result[p] = calls[p][3].row.id

\* a call made with no rawName or with the empty one has returned null
\* without a store call
NoNameNoCall ==
    \A p \in Procs :
        (pc[p] # "idle" /\ req[p].rawName \in {Null, RawEmpty}) =>
            /\ pc[p] = "done"
            /\ result[p] = NullId
            /\ error[p] = NoError
            /\ calls[p] = <<>>

\* the step that makes such a call leaves every table as it is
NoNameStep(p) ==
    (/\ ncalls' # ncalls
     /\ req'[p].rawName \in {Null, RawEmpty}
     /\ \A q \in Procs \ {p} : pc'[q] = pc[q] /\ req'[q] = req[q]) =>
        tables' = tables /\ calls'[p] = <<>>

\* C11: a call with an empty or absent rawName returns null and accesses
\* the store not at all: no read and no write of any table.
NoNameReturnsNull == []NoNameNoCall /\ [][\A p \in Procs : NoNameStep(p)]_vars

\* one call was made with the empty name and one with none, on a store that
\* holds rows
NoNameSeen ==
    \E p, q \in Procs :
        /\ pc[p] = "done" /\ req[p].rawName = RawEmpty
        /\ pc[q] = "done" /\ req[q].rawName = Null
        /\ tables # EmptyStore

\* C12: normalizeText is idempotent: for every non-empty string of letters,
\* digits, spaces and the words 'pc' and 'pcs', what it returns for what it
\* returned is what it returned.
NormalizeIdempotent == Len(keys) = 2 => keys[2] = keys[1]

\* the filter is given and restricts the rows: a day range, or an array that
\* is not empty
Applied(filters, key) ==
    Has(filters, key) /\ (key = "date_range" \/ Len(filters[key]) > 0)

\* C13: the plan of every intent joins the other base relation exactly when
\* it is required: line items, for revenue and orders, when a product or
\* category filter is applied or product or category is grouped by; orders,
\* for items_sold and per_item_revenue, when a location, fulfillment-method,
\* provider or day-range filter is applied or location, fulfillment_method,
\* provider, date or hour is grouped by.
OtherJoinedIffRequired ==
    stage = "built" =>
        LET g == parsedIntent.groupBy
            f == parsedIntent.filters
        IN  IF parsedIntent.metric \in {"revenue", "orders"}
            THEN Joined(query, "order_items") <=>
                    \/ Applied(f, "products") \/ Applied(f, "categories")
                    \/ Includes(g, "product") \/ Includes(g, "category")
            ELSE Joined(query, "orders") <=>
                    \/ Applied(f, "locations") \/ Applied(f, "fulfillmentMethods")
                    \/ Applied(f, "providers") \/ Applied(f, "date_range")
                    \/ \E d \in {"location", "fulfillment_method", "provider", "date", "hour"} :
                          Includes(g, d)

\* the intent {metric: items_sold, groupBy: [category]} with no filters has
\* been compiled
ItemsSoldByCategory ==
    /\ stage = "built"
    /\ parsedIntent.metric = "items_sold"
    /\ parsedIntent.groupBy = <<"category">>
    /\ parsedIntent.filters = NoFilters

\* C14 as stated: the plan of {metric: items_sold, groupBy: [category]} with
\* no filters has line items as its base relation, joins orders and joins
\* canonical categories, and groups by the canonical category's name.
ItemsSoldByCategoryJoinsOrders ==
    ItemsSoldByCategory =>
        /\ query.from = "order_items"
        /\ Joined(query, "orders")
        /\ Joined(query, "canonical_categories")
        /\ query.groupBy = <<Column("canonical_categories", "canonical_name")>>

\* C14: the plan of {metric: items_sold, groupBy: [category]} with no
\* filters has line items as its base relation, joins canonical categories on
\* the line item's category id and no other relation (orders is not joined),
\* and groups by the canonical category's name.
ItemsSoldByCategoryPlan ==
    ItemsSoldByCategory =>
        /\ query.from = "order_items"
        /\ ~Joined(query, "orders")
        /\ Len(query.joins) = 1
        /\ query.joins[1].table = "canonical_categories"
        /\ query.joins[1].on = <<Column("order_items", "canonical_category_id"),
                                 Column("canonical_categories", "id")>>
        /\ query.groupBy = <<Column("canonical_categories", "canonical_name")>>

\* sortBy names a target the plan has no column for
SortWithoutColumn(intent) ==
    /\ Has(intent, "sortBy")
    /\ \/ intent.sortBy = "name" /\ ~Includes(intent.groupBy, "product")
       \/ /\ intent.sortBy = "date"
          /\ ~Includes(intent.groupBy, "date")
          /\ ~Includes(intent.groupBy, "hour")

\* C15: for a sortBy whose target has no column in the plan (name without
\* product grouping, date without date or hour grouping) the compiler does
\* not fail and gives a plan with no ordering clause and no reference to a
\* relation the plan does not join.
SortWithoutColumnIsNoOp ==
    stage \in {"validated", "built", "threw"} /\ SortWithoutColumn(parsedIntent) =>
        /\ stage # "threw"
        /\ stage = "built" =>
               query.orderBy = <<>> /\ Referenced(query) \subseteq Relations(query)

\* C16: the plan of an intent grouped by hour groups by the hour-truncated
\* order timestamp; and when date or hour is grouped by, sortBy date orders by
\* the truncated-time expression the plan groups by and selects.
HourGroupsByHourAndDateSortsByGroup ==
    stage = "built" =>
        LET g == parsedIntent.groupBy
        IN  /\ Includes(g, "hour") =>
                   GroupsBy(query, Sql("date_trunc_hour", "orders", "created_at"))
            /\ /\ Has(parsedIntent, "sortBy")
               /\ parsedIntent.sortBy = "date"
               /\ Includes(g, "date") \/ Includes(g, "hour")
               => /\ Len(query.orderBy) = 1
                  /\ GroupsBy(query, query.orderBy[1].expr)
                  /\ query.select.created_at = query.orderBy[1].expr

\* the metric, every groupBy element, sortBy and sortOrder are of the closed
\* enumerations and groupBy is not empty
InEnumerations(intent) ==
    /\ intent.metric \in {"revenue", "orders", "items_sold", "per_item_revenue"}
    /\ Len(intent.groupBy) >= 1
    /\ \A i \in 1..Len(intent.groupBy) :
          intent.groupBy[i] \in {"location", "product", "category", "date", "hour",
                                 "fulfillment_method", "provider"}
    /\ "sortBy" \in DOMAIN intent => intent.sortBy \in {"value", "count", "name", "date"}
    /\ "sortOrder" \in DOMAIN intent => intent.sortOrder \in {"asc", "desc"}

\* C20: an intent whose metric, groupBy element, sortBy or sortOrder is
\* outside the closed enumerations, or whose groupBy is empty, is rejected by
\* validation: the handler goes from received to rejected and stays there, no
\* plan is built for it, no query is run and nothing is transformed.
InvalidIntentNeverCompiled ==
    ~InEnumerations(parsedIntent) =>
        /\ stage \in {"received", "rejected"}
        /\ query = <<>>
        /\ queryRows = <<>>
        /\ chartData = <<>>

\* an intent outside the enumerations has been rejected
InvalidIntentRejected == stage = "rejected" /\ ~InEnumerations(parsedIntent)

\* C18: an intent that validation accepts with a limit has a positive limit,
\* its plan caps the rows at the limit, and the result has no more rows than
\* the limit.
LimitIsPositiveCap ==
    Has(parsedIntent, "limit") /\ stage \notin {"received", "rejected"} =>
        /\ parsedIntent.limit > 0
        /\ stage \in {"built", "failed", "fetched", "answered"} =>
               Has(query, "limit") /\ query.limit = parsedIntent.limit
        /\ stage \in {"fetched", "answered"} => Len(queryRows) <= parsedIntent.limit

\* C17: a day range accepts an order's timestamp t exactly when t is not
\* before 00:00:00 UTC of the start day and is before 00:00:00 UTC of the day
\* after the end day: the one order of the database is in the result of the
\* query exactly then.
DateRangeAcceptsWholeEndDay ==
    stage = "fetched" /\ Has(parsedIntent.filters, "date_range") =>
        \A order \in database.orders :
            LET range == parsedIntent.filters.date_range
                startDay == DaysFromCivil(NumberAt(range.start, 1, 4),
                                NumberAt(range.start, 6, 7), NumberAt(range.start, 9, 10))
                endDay == DaysFromCivil(NumberAt(range.end, 1, 4),
                              NumberAt(range.end, 6, 7), NumberAt(range.end, 9, 10))
            IN  Cardinality(database.orders) = 1 =>
                    (queryRows # <<>> <=>
                        startDay <= order.created_at[1] /\ order.created_at[1] < endDay + 1)

\* C19: the name transformQueryResult gives a row is the ' - ' join of those
\* of store_id, canonical_name, fulfillment_method, provider and the
\* formatted created_at that the row has (neither null nor empty), in that
\* order whatever the order of groupBy; it is 'Total' when groupBy is empty
\* or the row has none of them.
NameJoinsFieldsInFixedOrder ==
    stage = "answered" =>
        \A i \in 1..Len(queryRows) :
            LET row == queryRows[i]
                name == chartData[i].name
                fields == <<"store_id", "canonical_name", "fulfillment_method",
                            "provider", "created_at">>
                Present(k) ==
                    /\ fields[k] \in DOMAIN row
                    /\ row[fields[k]] # SqlNull
                    /\ row[fields[k]] # ""
                Rank(k) == Cardinality({j \in 1..k : Present(j)})
            IN  IF parsedIntent.groupBy = <<>> \/ Rank(5) = 0
                THEN name = <<"Total">>
                ELSE /\ Len(name) = 2 * Rank(5) - 1
                     /\ \A m \in 1..(Rank(5) - 1) : name[2 * m] = " - "
                     /\ \A k \in 1..5 :
                           Present(k) =>
                               name[2 * Rank(k) - 1] =
                                   IF k = 5 THEN ToLocaleString(row.created_at)
                                   ELSE row[fields[k]]

\* a row of a store and a product named under a grouping by product, then
\* location
NamedAgainstGroupByOrder ==
    /\ stage = "answered"
    /\ parsedIntent.groupBy = <<"product", "location">>
    /\ Len(chartData) = 1
    /\ chartData[1].name = <<"downtown", " - ", "Latte">>

\* the day range of the intent starts on a later day than it ends
StartsAfterEnd(intent) ==
    /\ Has(intent.filters, "date_range")
    /\ DateRegex(intent.filters.date_range.start)
    /\ DateRegex(intent.filters.date_range.end)
    /\ NewDate(intent.filters.date_range.start)[1] > NewDate(intent.filters.date_range.end)[1]

\* C21: validation rejects every intent whose day range starts later than it
\* ends: the handler goes from received to rejected, and no plan is built for
\* such an intent.
StartAfterEndRejected ==
    StartsAfterEnd(parsedIntent) =>
        stage \in {"received", "rejected"} /\ query = <<>>

\* the grouping columns the plan selects
GroupingAliases(plan) == DOMAIN plan.select \ {"value"}

\* C24: for an intent of non-empty groupBy, a row of the compiled plan that
\* has a value, neither null nor empty, under every grouping column the plan
\* selects is named by transformQueryResult with one part per grouping
\* column, and never 'Total'.
PlanRowsNamedByEveryDimension ==
    stage = "answered" /\ Len(parsedIntent.groupBy) > 0 =>
        \A i \in 1..Len(queryRows) :
            (\A alias \in GroupingAliases(query) : queryRows[i][alias] \notin {SqlNull, ""})
                => /\ chartData[i].name # <<"Total">>
                   /\ Len(chartData[i].name) = 2 * Cardinality(GroupingAliases(query)) - 1

\* the orders that have a row in the group
OrdersOf(group) == {joined["orders"] : joined \in group}

RECURSIVE TotalOf(_)
\* the sum of total over a set of orders
TotalOf(orderRows) ==
    IF orderRows = {} THEN 0
    ELSE LET order == CHOOSE o \in orderRows : TRUE
         IN  order.total + TotalOf(orderRows \ {order})

\* the value of an order-level metric over the distinct orders of a group
OverDistinctOrders(metric, group) ==
    IF metric = "orders" THEN Cardinality(OrdersOf(group)) ELSE TotalOf(OrdersOf(group))

\* C25: for the metrics orders and revenue grouped or filtered by product or
\* category, the value of every row of the result is the number of distinct
\* orders, or the sum of total over the distinct orders, that have a line
\* item in the row's group: an order counts once however many of its line
\* items are in the group.
OrderCountedOnce ==
    /\ stage = "fetched"
    /\ parsedIntent.metric \in {"orders", "revenue"}
    /\ \/ Includes(parsedIntent.groupBy, "product")
       \/ Includes(parsedIntent.groupBy, "category")
       \/ Applied(parsedIntent.filters, "products")
       \/ Applied(parsedIntent.filters, "categories")
    => \A i \in 1..Len(queryRows) :
           \E group \in Groups(database, query) :
               queryRows[i] =
                   [ResultRow(query, group) EXCEPT
                       !.value = Digits(OverDistinctOrders(parsedIntent.metric, group))]

\* p's call has a name that is not empty and whose normalized key is empty
EmptyKeyCall(p) ==
    /\ req[p].rawName \notin {Null, RawEmpty}
    /\ normalizeText(req[p].rawName) = <<>>

\* C23: a call whose name is not empty and whose normalized key is the empty
\* string computes no similarity score (it scans no canonical entry), matches
\* no canonical entry and inserts none, and no canonical entry of an empty
\* normalized_name is in the store.
EmptyKeyNeverScored ==
    /\ \A p \in Procs :
          EmptyKeyCall(p) =>
              /\ entries[p] = <<>>
              /\ bestMatch[p] = NullRow
              /\ Inserts(p, CanonicalTables) = {}
    /\ \A t \in CanonicalTables : \A r \in tables[t] : r.normalized_name # <<>>

\* the run has made an insert into table for line item j (0: the order
\* itself) of the k-th order
Attempted(table, k, j) ==
    \E i \in DOMAIN log :
        log[i].table = table /\ log[i].order = k /\ log[i].item = j

\* the run has left line item j of the k-th order behind
Passed(k, j) ==
    \/ k < orderIndex
    \/ k = orderIndex /\ step \in {"insertItem", "insertOptions"} /\ j < itemIndex

\* C22: a run whose connectivity check failed (or whose file has no orders)
\* has made no insert; in a run that goes on, after a failed insert of an
\* order, of a line item or of the options of a line item, every later order
\* the run has passed has had its insert attempted, every later line item of
\* the same order the run has passed has had its insert attempted, and the
\* run ends only past the last order.
InsertFailureIsolated ==
    /\ step = "exited" => log = <<>>
    /\ step = "processed" => orderIndex = Len(dataOrders) + 1
    /\ \A i \in DOMAIN log :
        log[i].failed /\ log[i].table # "caught" =>
            /\ \A k \in (log[i].order + 1)..Len(dataOrders) :
                   k < orderIndex => Attempted("orders", k, 0)
            /\ log[i].table # "orders" =>
                   \A j \in (log[i].item + 1)..Len(ItemsOf(log[i].order)) :
                       Passed(log[i].order, j) => Attempted("order_items", log[i].order, j)

\* a run has ended after a failed insert of an order that is not the last, of
\* a line item that is not the last of its order, and of the options of one
InsertFailuresSurvived ==
    /\ step = "processed"
    /\ \E i \in DOMAIN log :
        log[i].failed /\ log[i].table = "orders" /\ log[i].order < Len(dataOrders)
    /\ \E i \in DOMAIN log :
        /\ log[i].failed /\ log[i].table = "order_items"
        /\ log[i].item < Len(ItemsOf(log[i].order))
    /\ \E i \in DOMAIN log :
        /\ log[i].failed /\ log[i].table = "order_item_options"
        /\ log[i].item < Len(ItemsOf(log[i].order))

\* C26: of an order the run has inserted and passed, every line item has had
\* its insert attempted, but for a line item whose resolution has thrown.
ResolutionFailureIsolated ==
    \A k \in 1..Len(dataOrders) :
        k < orderIndex /\ (\E i \in DOMAIN log : log[i] = InsertAttempt("orders", k, 0, FALSE)) =>
            \A j \in 1..Len(ItemsOf(k)) :
                \/ Attempted("order_items", k, j)
                \/ Attempted("caught", k, j)

====
